---- MODULE Spec2Model ----
(***************************************************************************)
(* Model of mvdkleijn/licenses (src/main.go): one run of main() over a     *)
(* CycloneDX SBOM, with the optional license compatibility validation.     *)
(*                                                                         *)
(* A run is the sequence                                                   *)
(*   LoadStep -> ParseStep -> MainLicenseStep -> CheckComponentsStep ->    *)
(*   LoopStep (once per component) -> RenderStep -> ExitStep               *)
(* and every log.Fatal / runtime panic / os.Exit ends it in pc = "done".   *)
(***************************************************************************)
EXTENDS Integers, Sequences, FiniteSets, TLC

VARIABLES
    pc,                  \* position of main(): load, parse, mainlicense, check, loop, render, exit, done
    validate,            \* *validateLicenses, the -validate flag (main.go:146)
    comp,                \* var comp Compatibility (main.go:150)
    bom,                 \* var bom BOM (main.go:149)
    applicationLicense,  \* applicationLicense.License.ID (main.go:166)
    compissues,          \* compissues map[string]LicenseStatus (main.go:167)
    componentsByLicense, \* componentsByLicense (main.go:174)
    i,                   \* 1-based index of the next component of the range loop (main.go:175)
    licenseKeys,         \* licenseKeys after sort.Strings (main.go:197-201)
    output,              \* the output file: "none", "created" (os.Create done), "written" (template executed)
    exitCode,            \* process exit status, NotExited while main() runs
    term,                \* how the process ended: "" while running, else the cause
    loadCalled,          \* history: LoadCompatibility was invoked
    parsed,              \* history: parse returned a BOM without error
    lookups              \* history: the GetLicenseStatus invocations made, with their results

vars == <<pc, validate, comp, bom, applicationLicense, compissues, componentsByLicense,
          i, licenseKeys, output, exitCode, term, loadCalled, parsed, lookups>>

(***************************************************************************)
(* Bounds of the explored inputs.                                          *)
(***************************************************************************)
MaxComponents == 2
MaxEntries == 1

\* License identifiers the SBOMs and tables are drawn from.
IDs == {"GPL-3.0", "MIT"}
\* An identifier no table mentions, for queries of the resolver.
QueryIDs == IDs \cup {"ISC"}

NotExited == -1

(***************************************************************************)
(* Data model.                                                             *)
(***************************************************************************)
\* LicenseStatus{Status, Reason}; Reason is "" when the YAML omits it.
LicenseStatus(status, reason) == [status |-> status, reason |-> reason]

\* The (status, reason) entries a compatibility.yaml is drawn from: the three
\* documented statuses, an empty status and an unrecognised one.
Entries ==
    { LicenseStatus("c", ""),
      LicenseStatus("w", "weak copyleft"),
      LicenseStatus("i", "copyleft conflict"),
      LicenseStatus("", ""),
      LicenseStatus("x", "unknown") }

\* A Go map with no keys (also the nil map: reads behave alike).
EmptyMap == [k \in {} |-> {}]

\* m[key] = value on a Go map.
MapStore(m, key, value) ==
    [k \in (DOMAIN m) \cup {key} |-> IF k = key THEN value ELSE m[k]]

\* Component{Name, Version, Licenses}; licenses holds the License.ID values.
Component(name, version, licenses) ==
    [name |-> name, version |-> version, licenses |-> licenses]

\* The zero value BOM{}.
ZeroBOM == [metadata |-> Component("", "", <<>>), components |-> <<>>]

SeqsUpTo(S, n) == UNION { [1..k -> S] : k \in 0..n }

\* The license lists of a component: every list over IDs without a repeated
\* identifier, the empty list included.
LicenseLists ==
    { ls \in SeqsUpTo(IDs, Cardinality(IDs)) :
        \A a, b \in 1..Len(ls) : a # b => ls[a] # ls[b] }
Components == { Component("liba", "1.0.0", ls) : ls \in LicenseLists }
BOMs ==
    { [metadata |-> Component("app", "0.1.0", ml), components |-> cs] :
        ml \in LicenseLists, cs \in SeqsUpTo(Components, MaxComponents) }

\* Table t with the entry e stored for (m, d).
WithEntry(t, m, d, e) ==
    MapStore(t, m, MapStore(IF m \in DOMAIN t THEN t[m] ELSE EmptyMap, d, e))

\* Compatibility tables with at most n (main, dependency) entries.
RECURSIVE TablesUpTo(_)
TablesUpTo(n) ==
    IF n = 0 THEN {EmptyMap}
    ELSE LET smaller == TablesUpTo(n - 1)
         IN  smaller \cup
             { WithEntry(t, m, d, e) : t \in smaller, m \in IDs, d \in IDs, e \in Entries }

Tables == TablesUpTo(MaxEntries)

\* Every two-level table over IDs: each main license absent, or mapped to a
\* sub-mapping (possibly empty) from dependency licenses to entries.
SubMaps == UNION { [D -> Entries] : D \in SUBSET IDs }
TablesFull == UNION { [M -> SubMaps] : M \in SUBSET IDs }

(***************************************************************************)
(* Pure functions of main.go.                                              *)
(***************************************************************************)
\* A resolver that also accepts the entry stored in the opposite direction.
GetLicenseStatusSym(c, mainLicense, subLicense) ==
    IF mainLicense \in DOMAIN c /\ subLicense \in DOMAIN c[mainLicense]
    THEN [status |-> c[mainLicense][subLicense].status,
          reason |-> c[mainLicense][subLicense].reason, err |-> ""]
    ELSE IF subLicense \in DOMAIN c /\ mainLicense \in DOMAIN c[subLicense]
    THEN [status |-> c[subLicense][mainLicense].status,
          reason |-> c[subLicense][mainLicense].reason, err |-> ""]
    ELSE [status |-> "", reason |-> "", err |-> "no entry for main license"]

\* GetLicenseStatus: (status, reason, err); err = "" is the nil error.
GetLicenseStatus(c, mainLicense, subLicense) ==
    IF mainLicense \notin DOMAIN c
    THEN [status |-> "", reason |-> "", err |-> "no entry for main license"]
    ELSE IF subLicense \notin DOMAIN c[mainLicense]
    THEN [status |-> "", reason |-> "", err |-> "no sub license"]
    ELSE [status |-> c[mainLicense][subLicense].status,
          reason |-> c[mainLicense][subLicense].reason, err |-> ""]

\* One resolver invocation as recorded in the history variable lookups.
LookupRecord(c, mainLicense, subLicense) ==
    LET r == GetLicenseStatus(c, mainLicense, subLicense)
    IN  [main |-> mainLicense, sub |-> subLicense,
         status |-> r.status, reason |-> r.reason, err |-> r.err]

\* The first declared license as the project's own license.
ApplicationLicenseFirst(b) == b.metadata.licenses[1]

\* bom.Metadata.Licenses[len(bom.Metadata.Licenses)-1].License.ID
ApplicationLicense(b) == b.metadata.licenses[Len(b.metadata.licenses)]

\* A components check that lets an empty list through.
ComponentsEmptyNever(b) == FALSE

\* len(bom.Components) == 0
ComponentsEmpty(b) == Len(b.components) = 0

\* The last declared license as the grouping and lookup key.
licenseIDLast(component) ==
    IF Len(component.licenses) > 0
    THEN component.licenses[Len(component.licenses)]
    ELSE "No License"

\* licenseID of one loop iteration: "No License", or Licenses[0].License.ID.
licenseID(component) ==
    IF Len(component.licenses) > 0 THEN component.licenses[1] ELSE "No License"

\* The issue recorded for a lookup failure under another status and reason.
NotFoundIssueRenamed ==
    LicenseStatus("lookup-error", "License not found in compatibility matrix.")

\* The issue recorded when GetLicenseStatus returns an error.
NotFoundIssue ==
    LicenseStatus("error", "ERROR - License not found in compatibility matrix.")

\* Every status but "c" taken for an issue.
IsIssueStatusNotC(status) == status # "c"

\* status == "w" || status == "i"
IsIssueStatus(status) == status = "w" \/ status = "i"

\* The audit of one component applied to the sentinel key as well.
AuditComponentAll(c, mainLicense, component, v, issues, calls) ==
    IF v
    THEN LET r == GetLicenseStatus(c, mainLicense, licenseID(component))
             key == licenseID(component)
         IN  [compissues |->
                 IF r.err # "" THEN MapStore(issues, key, NotFoundIssue)
                 ELSE IF IsIssueStatus(r.status)
                      THEN MapStore(issues, key, LicenseStatus(r.status, r.reason))
                      ELSE issues,
              lookups |-> calls \cup {LookupRecord(c, mainLicense, licenseID(component))}]
    ELSE [compissues |-> issues, lookups |-> calls]

\* The validation part of one loop iteration: the new issue map and the
\* resolver invocations made so far.
AuditComponent(c, mainLicense, component, v, issues, calls) ==
    IF Len(component.licenses) > 0 /\ v
    THEN LET r == GetLicenseStatus(c, mainLicense, licenseID(component))
             key == component.licenses[1]
         IN  [compissues |->
                 IF r.err # "" THEN MapStore(issues, key, NotFoundIssue)
                 ELSE IF IsIssueStatus(r.status)
                      THEN MapStore(issues, key, LicenseStatus(r.status, r.reason))
                      ELSE issues,
              lookups |-> calls \cup {LookupRecord(c, mainLicense, licenseID(component))}]
    ELSE [compissues |-> issues, lookups |-> calls]

\* A grouping that puts each component in front of its group.
GroupPrepend(groups, key, component) ==
    MapStore(groups, key,
             IF key \in DOMAIN groups THEN <<component>> \o groups[key] ELSE <<component>>)

\* componentsByLicense[licenseID] = append(componentsByLicense[licenseID], component)
GroupAppend(groups, key, component) ==
    MapStore(groups, key,
             IF key \in DOMAIN groups THEN Append(groups[key], component) ELSE <<component>>)

\* Byte-wise order of the license keys that occur, as sort.Strings orders them.
StrRank(s) ==
    CASE s = "GPL-3.0" -> 1
      [] s = "ISC" -> 2
      [] s = "MIT" -> 3
      [] s = "No License" -> 4
      [] OTHER -> 5

\* The keys of a map collected and sorted.
RECURSIVE SortStrings(_)
SortStrings(S) ==
    IF S = {} THEN <<>>
    ELSE LET least == CHOOSE s \in S : \A t \in S : StrRank(s) <= StrRank(t)
         IN  <<least>> \o SortStrings(S \ {least})

\* Where the range loop stands once index j is the next one.
AfterRange(b, j) == IF j > Len(b.components) THEN "render" ELSE "loop"

(***************************************************************************)
(* The run of main().                                                      *)
(***************************************************************************)
Init ==
    /\ pc = "load"
    /\ validate \in BOOLEAN
    /\ comp = EmptyMap
    /\ bom = ZeroBOM
    /\ applicationLicense = ""
    /\ compissues = EmptyMap
    /\ componentsByLicense = EmptyMap
    /\ i = 1
    /\ licenseKeys = <<>>
    /\ output = "none"
    /\ exitCode = NotExited
    /\ term = ""
    /\ loadCalled = FALSE
    /\ parsed = FALSE
    /\ lookups = {}

\* log.Fatal / log.Fatalf: exit status 1.
Fatal(cause) ==
    /\ pc' = "done"
    /\ exitCode' = 1
    /\ term' = cause

\* main.go:153-158 with LoadCompatibility (47-61).
LoadStep ==
    /\ pc = "load"
    /\ \/ /\ ~validate
          /\ pc' = "parse"
          /\ UNCHANGED <<comp, loadCalled, exitCode, term>>
       \/ /\ validate
          /\ loadCalled' = TRUE
          /\ \/ \E t \in Tables :
                   /\ comp' = t
                   /\ pc' = "parse"
                   /\ UNCHANGED <<exitCode, term>>
             \/ \E cause \in {"table-unreadable", "table-malformed"} :
                   /\ Fatal(cause)
                   /\ UNCHANGED comp
    /\ UNCHANGED <<validate, bom, applicationLicense, compissues, componentsByLicense,
                   i, licenseKeys, output, parsed, lookups>>

\* main.go:160-163 with parse, parseJSON, parseXML (91-139).
ParseStep ==
    /\ pc = "parse"
    /\ \/ \E b \in BOMs :
             /\ bom' = b
             /\ parsed' = TRUE
             /\ pc' = "mainlicense"
             /\ UNCHANGED <<exitCode, term>>
       \/ \E cause \in {"unsupported-format", "sbom-missing", "sbom-malformed", "sbom-empty"} :
             /\ Fatal(cause)
             /\ UNCHANGED <<bom, parsed>>
    /\ UNCHANGED <<validate, comp, applicationLicense, compissues, componentsByLicense,
                   i, licenseKeys, output, loadCalled, lookups>>

\* main.go:165-167: the index expression panics on an empty Licenses slice
\* (runtime error: index out of range [-1], exit status 2).
MainLicenseStep ==
    /\ pc = "mainlicense"
    /\ \/ /\ Len(bom.metadata.licenses) = 0
          /\ pc' = "done"
          /\ exitCode' = 2
          /\ term' = "panic"
          /\ UNCHANGED <<applicationLicense, compissues>>
       \/ /\ Len(bom.metadata.licenses) > 0
          /\ applicationLicense' = ApplicationLicense(bom)
          /\ compissues' = EmptyMap
          /\ pc' = "check"
          /\ UNCHANGED <<exitCode, term>>
    /\ UNCHANGED <<validate, comp, bom, componentsByLicense, i, licenseKeys, output,
                   loadCalled, parsed, lookups>>

\* main.go:169-174.
CheckComponentsStep ==
    /\ pc = "check"
    /\ \/ /\ ComponentsEmpty(bom)
          /\ Fatal("empty-components")
          /\ UNCHANGED componentsByLicense
       \/ /\ ~ComponentsEmpty(bom)
          /\ componentsByLicense' = EmptyMap
          /\ pc' = AfterRange(bom, i)
          /\ UNCHANGED <<exitCode, term>>
    /\ UNCHANGED <<validate, comp, bom, applicationLicense, compissues, i, licenseKeys,
                   output, loadCalled, parsed, lookups>>

\* main.go:175-195: one iteration of the range loop.
LoopStep ==
    /\ pc = "loop"
    /\ i <= Len(bom.components)
    /\ LET component == bom.components[i]
           audit == AuditComponent(comp, applicationLicense, component, validate,
                                   compissues, lookups)
       IN  /\ compissues' = audit.compissues
           /\ lookups' = audit.lookups
           /\ componentsByLicense' =
                  GroupAppend(componentsByLicense, licenseID(component), component)
    /\ i' = i + 1
    /\ pc' = AfterRange(bom, i + 1)
    /\ UNCHANGED <<validate, comp, bom, applicationLicense, licenseKeys, output,
                   exitCode, term, loadCalled, parsed>>

\* main.go:197-227: sort the keys, parse the template, create the output
\* file, execute the template into it.
RenderStep ==
    /\ pc = "render"
    /\ licenseKeys' = SortStrings(DOMAIN componentsByLicense)
    /\ \/ /\ Fatal("template-error")
          /\ UNCHANGED output
       \/ /\ Fatal("create-error")
          /\ UNCHANGED output
       \/ /\ Fatal("execute-error")
          /\ output' = "created"
       \/ /\ output' = "written"
          /\ pc' = "exit"
          /\ UNCHANGED <<exitCode, term>>
    /\ UNCHANGED <<validate, comp, bom, applicationLicense, compissues, componentsByLicense,
                   i, loadCalled, parsed, lookups>>

\* main.go:229-240.
ExitStep ==
    /\ pc = "exit"
    /\ pc' = "done"
    /\ term' = "exit"
    /\ exitCode' = IF validate /\ DOMAIN compissues # {} THEN 1 ELSE 0
    /\ UNCHANGED <<validate, comp, bom, applicationLicense, compissues, componentsByLicense,
                   i, licenseKeys, output, loadCalled, parsed, lookups>>

Next ==
    \/ LoadStep
    \/ ParseStep
    \/ MainLicenseStep
    \/ CheckComponentsStep
    \/ LoopStep
    \/ RenderStep
    \/ ExitStep

Spec == Init /\ [][Next]_vars

(***************************************************************************)
(* The resolver on its own: every table over IDs, every query.             *)
(***************************************************************************)
InitResolve ==
    /\ pc = "resolve"
    /\ validate = TRUE
    /\ comp \in TablesFull
    /\ bom = ZeroBOM
    /\ applicationLicense = ""
    /\ compissues = EmptyMap
    /\ componentsByLicense = EmptyMap
    /\ i = 1
    /\ licenseKeys = <<>>
    /\ output = "none"
    /\ exitCode = NotExited
    /\ term = ""
    /\ loadCalled = TRUE
    /\ parsed = FALSE
    /\ lookups = {}

\* One call GetLicenseStatus(comp, mainLicense, subLicense).
Resolve ==
    /\ pc = "resolve"
    /\ \E mainLicense \in QueryIDs, subLicense \in QueryIDs :
          lookups' = {LookupRecord(comp, mainLicense, subLicense)}
    /\ UNCHANGED <<pc, validate, comp, bom, applicationLicense, compissues,
                   componentsByLicense, i, licenseKeys, output, exitCode, term,
                   loadCalled, parsed>>

NextResolve == Resolve

SpecResolve == InitResolve /\ [][NextResolve]_vars

(***************************************************************************)
(* Vocabulary of the properties.                                           *)
(***************************************************************************)
\* The components the range loop has gone through.
Processed == SubSeq(bom.components, 1, i - 1)
ProcessedSet == { bom.components[j] : j \in 1..(i - 1) }

\* A component that declares at least one license.
Declared(c) == Len(c.licenses) > 0

\* The effective license of a component as the specification defines it.
Effective(c) == IF c.licenses = <<>> THEN "No License" ELSE Head(c.licenses)

\* The table holds an entry for (m, d).
Present(m, d) == m \in DOMAIN comp /\ d \in DOMAIN comp[m]

FatalCauses ==
    {"table-unreadable", "table-malformed", "unsupported-format", "sbom-missing",
     "sbom-malformed", "sbom-empty", "empty-components"}
RenderCauses == {"template-error", "create-error", "execute-error"}

\* main() ran to its os.Exit (main.go:229-240).
Finished == pc = "done" /\ term = "exit"

\* The range loop is over.
LoopDone == pc \in {"render", "exit"} \/ (pc = "done" /\ term \in RenderCauses \cup {"exit"})

\* The issue map of the whole loop over a component list, from no issues.
RECURSIVE AuditAll(_, _, _, _, _)
AuditAll(c, mainLicense, components, v, issues) ==
    IF components = <<>> THEN issues
    ELSE AuditAll(c, mainLicense, Tail(components), v,
                  AuditComponent(c, mainLicense, Head(components), v, issues, {}).compissues)

\* The grouping loop of the grouping-only program, over a component list.
RECURSIVE GroupAll(_, _)
GroupAll(components, groups) ==
    IF components = <<>> THEN groups
    ELSE GroupAll(Tail(components),
                  GroupAppend(groups, licenseID(Head(components)), Head(components)))

\* The orders in which n components can be enumerated.
Orders(n) == { p \in [1..n -> 1..n] : \A a, b \in 1..n : a # b => p[a] # p[b] }

(***************************************************************************)
(* C1. GetLicenseStatus succeeds exactly when the main license is a        *)
(* top-level key of the table and the dependency license a key of its      *)
(* sub-mapping; it then returns the stored status and reason, and          *)
(* otherwise fails with empty status and reason. An entry stored under     *)
(* (dep, main) never makes (main, dep) resolve.                            *)
(***************************************************************************)
C1_ResolveExact ==
    \A l \in lookups :
        /\ (l.err = "") <=> Present(l.main, l.sub)
        /\ Present(l.main, l.sub) =>
              /\ l.status = comp[l.main][l.sub].status
              /\ l.reason = comp[l.main][l.sub].reason
        /\ ~Present(l.main, l.sub) => l.status = "" /\ l.reason = ""

\* A query fails although the table holds the entry of the opposite direction.
C1_Witness ==
    \E l \in lookups :
        l.err # "" /\ l.main # l.sub /\ Present(l.sub, l.main) /\ ~Present(l.main, l.sub)

(***************************************************************************)
(* C2 as claimed. With validation requested, an SBOM holding a component   *)
(* without licenses, under a table without an entry for (main license,     *)
(* "No License"), ends with an issue keyed "No License" and a non-zero     *)
(* exit code.                                                              *)
(***************************************************************************)
C2_SentinelAudited ==
    ( /\ Finished
      /\ validate
      /\ \E j \in 1..Len(bom.components) : ~Declared(bom.components[j])
      /\ ~Present(applicationLicense, "No License") )
    => ("No License" \in DOMAIN compissues /\ exitCode # 0)

(***************************************************************************)
(* C2 amended. A component without licenses is grouped under "No License"  *)
(* but is not audited: every resolver call and every issue key is the      *)
(* first declared license of a component that declares one, and a          *)
(* validated run over components that all lack licenses ends with no       *)
(* issue and exit code 0.                                                  *)
(***************************************************************************)
C2_SentinelNotAudited ==
    /\ \A l \in lookups : \E c \in ProcessedSet : Declared(c) /\ l.sub = c.licenses[1]
    /\ \A k \in DOMAIN compissues : \E c \in ProcessedSet : Declared(c) /\ k = c.licenses[1]
    /\ ( /\ Finished
         /\ validate
         /\ \A j \in 1..Len(bom.components) : ~Declared(bom.components[j]) )
       => (compissues = EmptyMap /\ exitCode = 0)

\* A validated run with an unlicensed component, grouped under the sentinel, ends clean.
C2_Witness ==
    /\ Finished
    /\ validate
    /\ \E j \in 1..Len(bom.components) : ~Declared(bom.components[j])
    /\ "No License" \in DOMAIN componentsByLicense
    /\ "No License" \notin DOMAIN compissues
    /\ exitCode = 0

(***************************************************************************)
(* C3 as claimed. Every resolution uses the first element of the metadata  *)
(* component's license sequence as the main license.                       *)
(***************************************************************************)
C3_MainIsFirst ==
    /\ \A l \in lookups : l.main = bom.metadata.licenses[1]
    /\ lookups # {} => applicationLicense = bom.metadata.licenses[1]

(***************************************************************************)
(* C3 amended. Every resolution uses the last element of the metadata      *)
(* component's license sequence as the main license.                       *)
(***************************************************************************)
C3_MainIsLast ==
    /\ \A l \in lookups : l.main = bom.metadata.licenses[Len(bom.metadata.licenses)]
    /\ lookups # {} =>
          applicationLicense = bom.metadata.licenses[Len(bom.metadata.licenses)]

\* A resolution was made for a project that declares two different licenses.
C3_Witness ==
    /\ lookups # {}
    /\ Len(bom.metadata.licenses) >= 2
    /\ bom.metadata.licenses[1] # bom.metadata.licenses[Len(bom.metadata.licenses)]

(***************************************************************************)
(* C4. Without validation, for every SBOM that parses with at least one    *)
(* component, the table is never loaded, the resolver never invoked, and   *)
(* the process ends with the output file written and exit code 0 (the      *)
(* rendering collaborator not failing).                                    *)
(***************************************************************************)
C4_NoValidationAlwaysSucceeds ==
    (~validate /\ parsed /\ Len(bom.components) >= 1)
    => /\ ~loadCalled
       /\ lookups = {}
       /\ (pc = "done" /\ term \notin RenderCauses) => (output = "written" /\ exitCode = 0)

(***************************************************************************)
(* C5. Every run that passes the fatal checks (table load, SBOM parse,     *)
(* non-empty components) ends with the report written, and its exit code   *)
(* is non-zero exactly when validation was requested and the issue set is  *)
(* non-empty (the rendering collaborator not failing).                     *)
(***************************************************************************)
C5_ReportThenExitCode ==
    ( /\ pc = "done"
      /\ term \notin FatalCauses \cup RenderCauses
      /\ validate => loadCalled
      /\ parsed
      /\ Len(bom.components) >= 1 )
    => /\ output = "written"
       /\ (exitCode # 0) <=> (validate /\ DOMAIN compissues # {})

(***************************************************************************)
(* C6. The issue set has at most one entry per effective license key, the  *)
(* entry of a key is decided by the table alone, and the issue set of the  *)
(* finished loop is the same under every enumeration order of the          *)
(* components.                                                             *)
(***************************************************************************)
C6_OneIssuePerLicense ==
    /\ DOMAIN compissues \subseteq { Effective(c) : c \in ProcessedSet }
    /\ Cardinality(DOMAIN compissues) <= Cardinality({ Effective(c) : c \in ProcessedSet })
    /\ \A k \in DOMAIN compissues :
          IF Present(applicationLicense, k)
          THEN compissues[k] = comp[applicationLicense][k]
          ELSE compissues[k].status = "error"
    /\ LoopDone =>
          \A p \in Orders(Len(bom.components)) :
              AuditAll(comp, applicationLicense,
                       [j \in 1..Len(bom.components) |-> bom.components[p[j]]],
                       validate, EmptyMap) = compissues

\* Two components share a license marked incompatible: one issue, with the stored reason.
C6_Witness ==
    /\ Finished
    /\ validate
    /\ Len(bom.components) = 2
    /\ Effective(bom.components[1]) = Effective(bom.components[2])
    /\ Cardinality(DOMAIN compissues) = 1
    /\ \E k \in DOMAIN compissues :
          compissues[k] = [status |-> "i", reason |-> "copyleft conflict"]

(***************************************************************************)
(* C7 as claimed. With validation requested, every dependency license      *)
(* whose pair is absent from the table has an issue with status            *)
(* "lookup-error" and reason "License not found in compatibility matrix.". *)
(***************************************************************************)
C7_LookupErrorIssue ==
    validate =>
        \A c \in ProcessedSet :
            (Declared(c) /\ ~Present(applicationLicense, c.licenses[1]))
            => /\ c.licenses[1] \in DOMAIN compissues
               /\ compissues[c.licenses[1]] =
                     [status |-> "lookup-error",
                      reason |-> "License not found in compatibility matrix."]

(***************************************************************************)
(* C7 amended. With validation requested, every declared dependency        *)
(* license whose pair is absent from the table has an issue with status    *)
(* "error" and reason "ERROR - License not found in compatibility          *)
(* matrix.", and a failed lookup never ends the run: after one, the        *)
(* process ends only at its normal exit or on a rendering failure.         *)
(***************************************************************************)
C7_LookupFailureIsIssue ==
    /\ validate =>
          \A c \in ProcessedSet :
              (Declared(c) /\ ~Present(applicationLicense, c.licenses[1]))
              => /\ c.licenses[1] \in DOMAIN compissues
                 /\ compissues[c.licenses[1]] =
                       [status |-> "error",
                        reason |-> "ERROR - License not found in compatibility matrix."]
    /\ (pc = "done" /\ \E l \in lookups : l.err # "")
          => (term \in RenderCauses \cup {"exit"} /\ i = Len(bom.components) + 1)

\* A run with a failed lookup went on to write the report and exit flagged.
C7_Witness ==
    /\ Finished
    /\ validate
    /\ \E l \in lookups : l.err # "" /\ l.sub \in DOMAIN compissues
    /\ output = "written"
    /\ exitCode = 1

(***************************************************************************)
(* C8. On every fatal error (table unreadable or malformed, SBOM missing,  *)
(* malformed, empty or of unsupported format, zero components) the         *)
(* process ends with a non-zero exit and no output file; the output file   *)
(* exists only after the table load (when requested), the parse and the    *)
(* component check have passed.                                            *)
(***************************************************************************)
C8_FatalNoOutput ==
    /\ term \in FatalCauses =>
          (pc = "done" /\ exitCode \notin {0, NotExited} /\ output = "none")
    /\ output # "none" =>
          /\ validate => (loadCalled /\ term \notin {"table-unreadable", "table-malformed"})
          /\ ~validate => ~loadCalled
          /\ parsed
          /\ Len(bom.components) > 0

\* A parsed SBOM without components ended the run fatally, with no output file.
C8_Witness ==
    /\ term = "empty-components"
    /\ parsed
    /\ Len(bom.components) = 0
    /\ output = "none"
    /\ exitCode = 1

(***************************************************************************)
(* C9. Grouping is total and stable: the groups' keys are exactly the      *)
(* effective licenses of the components gone through, and each group is    *)
(* the subsequence, in SBOM order, of the components with that effective   *)
(* license. The grouping-only program groups the same list the same way.   *)
(***************************************************************************)
C9_GroupingStable ==
    /\ DOMAIN componentsByLicense = { Effective(c) : c \in ProcessedSet }
    /\ \A k \in DOMAIN componentsByLicense :
          LET InGroup(c) == Effective(c) = k
          IN  /\ componentsByLicense[k] = SelectSeq(Processed, InGroup)
              /\ componentsByLicense[k] # <<>>
    /\ LET grouped == GroupAll(Processed, EmptyMap)
       IN  /\ DOMAIN grouped = { Effective(c) : c \in ProcessedSet }
           /\ \A k \in DOMAIN grouped :
                 LET InGroup(c) == Effective(c) = k
                 IN  grouped[k] = SelectSeq(Processed, InGroup)

\* Two different components of one effective license sit in one group, in SBOM order.
C9_Witness ==
    /\ Finished
    /\ Len(bom.components) = 2
    /\ bom.components[1] # bom.components[2]
    /\ \E k \in DOMAIN componentsByLicense :
          componentsByLicense[k] = <<bom.components[1], bom.components[2]>>

(***************************************************************************)
(* C10. With validation requested, a dependency license that resolves is   *)
(* recorded as an issue exactly when the stored status is "w" or "i"; a    *)
(* run that reaches its exit with every declared dependency license        *)
(* resolving to another status has no issue and exit code 0.               *)
(***************************************************************************)
C10_OnlyWarnIncompat ==
    /\ validate =>
          \A c \in ProcessedSet :
              (Declared(c) /\ Present(applicationLicense, c.licenses[1]))
              => LET e == comp[applicationLicense][c.licenses[1]]
                 IN  IF e.status \in {"w", "i"}
                     THEN /\ c.licenses[1] \in DOMAIN compissues
                          /\ compissues[c.licenses[1]] = e
                     ELSE c.licenses[1] \notin DOMAIN compissues
    /\ ( /\ Finished
         /\ validate
         /\ \A j \in 1..Len(bom.components) :
               Declared(bom.components[j]) =>
                  /\ Present(applicationLicense, bom.components[j].licenses[1])
                  /\ comp[applicationLicense][bom.components[j].licenses[1]].status
                        \notin {"w", "i"} )
       => (compissues = EmptyMap /\ exitCode = 0)

\* A validated run resolved a license to an empty or unrecognised status and ended clean.
C10_Witness ==
    /\ Finished
    /\ validate
    /\ \E l \in lookups : l.err = "" /\ l.status \in {"", "x"}
    /\ compissues = EmptyMap
    /\ exitCode = 0

====
